---- MODULE Spec2Model ----
(***************************************************************************)
(* A model of the three batch scripts of games-nes:                        *)
(*   copy_cheats.py       name normalisation, alias index, cheat matching, *)
(*                        copying and the unmatched report                 *)
(*   add_cheats_field.py  the `cheats` field of every catalog entry        *)
(*   translate_cheats.py  the translation retry loop and the --limit flag  *)
(*                                                                         *)
(* A string is a sequence of characters; a character is a one-character    *)
(* string, or "U+XXXX" for a code point outside ASCII.  The extension of a *)
(* file name is kept as one trailing token (".cht", ".txt").               *)
(***************************************************************************)
EXTENDS Integers, Sequences, FiniteSets, TLC

VARIABLES
    \* normalize_name applied once and twice
    n_pc, n_in, n_out, n_out2,
    \* add_cheats_field: the catalog file, the cheat directory, the runs so far
    a_catalog, a_files, a_runs, a_first,
    \* build_name_mapping and the lookup of copy_cheats
    i_rows, i_done, i_mapping, i_pc, i_game, i_english,
    \* find_cheat_file
    f_pc, f_names, f_files, f_ret,
    \* copy_cheats
    c_pc, c_dry, c_rows, c_games, c_listing, c_mapping, c_cheat_files, c_i,
    c_found_count, c_not_found, c_copied, c_last, fs_outdir, fs_out, fs_unknown,
    \* translate_text
    t_pc, t_text, t_attempt, t_calls, t_sleeps, t_last, t_result, t_ret, t_n,
    \* translate_all_cheats
    l_pc, l_nfiles, l_limit, l_cht_files, l_i, l_handled, l_processed_files,
    l_total

normVars  == <<n_pc, n_in, n_out, n_out2>>
annotVars == <<a_catalog, a_files, a_runs, a_first>>
indexVars == <<i_rows, i_done, i_mapping, i_pc, i_game, i_english>>
findVars  == <<f_pc, f_names, f_files, f_ret>>
copyVars  == <<c_pc, c_dry, c_rows, c_games, c_listing, c_mapping, c_cheat_files,
               c_i, c_found_count, c_not_found, c_copied, c_last, fs_outdir,
               fs_out, fs_unknown>>
textVars  == <<t_pc, t_text, t_attempt, t_calls, t_sleeps, t_last, t_result,
               t_ret, t_n>>
limitVars == <<l_pc, l_nfiles, l_limit, l_cht_files, l_i, l_handled,
               l_processed_files, l_total>>
vars == <<normVars, annotVars, indexVars, findVars, copyVars, textVars, limitVars>>

\* What a script leaves alone: the state of the other scripts.
others_norm == <<annotVars, indexVars, findVars, copyVars, textVars, limitVars>>
others_annot == <<normVars, indexVars, findVars, copyVars, textVars, limitVars>>
others_index == <<normVars, annotVars, findVars, copyVars, textVars, limitVars>>
others_find == <<normVars, annotVars, indexVars, copyVars, textVars, limitVars>>
others_copy == <<normVars, annotVars, indexVars, findVars, textVars, limitVars>>
others_text == <<normVars, annotVars, indexVars, findVars, copyVars, limitVars>>
others_limit == <<normVars, annotVars, indexVars, findVars, copyVars, textVars>>

(***************************************************************************)
(* Sequences.                                                              *)
(***************************************************************************)
RECURSIVE SeqsUpTo(_, _)
SeqsUpTo(S, n) ==
    IF n = 0 THEN {<<>>}
    ELSE LET shorter == SeqsUpTo(S, n - 1)
         IN  shorter \cup {Append(s, x) : s \in {t \in shorter : Len(t) = n - 1}, x \in S}

Range(s) == {s[k] : k \in 1..Len(s)}

Injective(s) == \A j, k \in 1..Len(s) : s[j] = s[k] => j = k

(***************************************************************************)
(* Characters: str.lower() and the class [a-z0-9].                         *)
(***************************************************************************)
AsciiUpper == <<"A","B","C","D","E","F","G","H","I","J","K","L","M",
                "N","O","P","Q","R","S","T","U","V","W","X","Y","Z">>
AsciiLower == <<"a","b","c","d","e","f","g","h","i","j","k","l","m",
                "n","o","p","q","r","s","t","u","v","w","x","y","z">>
Digits == {"0","1","2","3","4","5","6","7","8","9"}

\* str.lower() of one character: a sequence, since U+0130 (I with a dot
\* above) lowers to two.  U+212A is the Kelvin sign, U+00C9 is E acute.
LowerChar(c) ==
    IF c \in Range(AsciiUpper)
    THEN <<AsciiLower[CHOOSE k \in 1..26 : AsciiUpper[k] = c]>>
    ELSE CASE c = "U+212A" -> <<"k">>
           [] c = "U+00C9" -> <<"U+00E9">>
           [] c = "U+0130" -> <<"i", "U+0307">>
           [] OTHER -> <<c>>

RECURSIVE Lower(_)
Lower(s) == IF s = <<>> THEN <<>> ELSE LowerChar(Head(s)) \o Lower(Tail(s))

IsLowerAlnum(c) == c \in Range(AsciiLower) \cup Digits

(***************************************************************************)
(* copy_cheats.py: normalize_name                                          *)
(***************************************************************************)
\* re.sub(open [^close]* close, '', s): leftmost, non-overlapping matches.  An
\* opening character with no closing character after it is kept.
RECURSIVE RemoveDelimited(_, _, _)
RemoveDelimited(s, open, close) ==
    IF s = <<>> THEN <<>>
    ELSE IF Head(s) = open /\ \E j \in 2..Len(s) : s[j] = close
    THEN LET j == CHOOSE k \in 2..Len(s) :
                      s[k] = close /\ \A m \in 2..(k - 1) : s[m] # close
         IN  RemoveDelimited(SubSeq(s, j + 1, Len(s)), open, close)
    ELSE <<Head(s)>> \o RemoveDelimited(Tail(s), open, close)

\* A slip in the last substitution: only the first offending character goes
\* (a substitution with count=1).
RECURSIVE StripFirstNonAlnum(_)
StripFirstNonAlnum(s) ==
    IF s = <<>> THEN <<>>
    ELSE IF IsLowerAlnum(Head(s)) THEN <<Head(s)>> \o StripFirstNonAlnum(Tail(s))
    ELSE Tail(s)

\* re.sub(r'[^a-z0-9]', '', s)
StripNonAlnum(s) == SelectSeq(s, IsLowerAlnum)

normalize_name(name) ==
    IF name = <<>> THEN <<>>
    ELSE StripNonAlnum(
             RemoveDelimited(RemoveDelimited(Lower(name), "(", ")"), "[", "]"))

(***************************************************************************)
(* Specification SpecNormalize: normalize_name on every short string.      *)
(***************************************************************************)
MaxLen == 4

NormAlphabet == {"a", "B", "1", "(", ")", "[", "]", "-", "U+00C9", "U+212A", "U+0130"}

IdleNorm == n_pc = "idle" /\ n_in = <<>> /\ n_out = <<>> /\ n_out2 = <<>>

InitNorm ==
    /\ n_pc = "start"
    /\ n_in \in SeqsUpTo(NormAlphabet, MaxLen)
    /\ n_out = <<>>
    /\ n_out2 = <<>>

NormalizeOnce ==
    /\ n_pc = "start"
    /\ n_out' = normalize_name(n_in)
    /\ n_pc' = "once"
    /\ UNCHANGED <<n_in, n_out2>>
    /\ UNCHANGED others_norm

NormalizeTwice ==
    /\ n_pc = "once"
    /\ n_out2' = normalize_name(n_out)
    /\ n_pc' = "twice"
    /\ UNCHANGED <<n_in, n_out>>
    /\ UNCHANGED others_norm

NextNorm == NormalizeOnce \/ NormalizeTwice

(***************************************************************************)
(* File names: the extension is the last token.                            *)
(***************************************************************************)
Extensions == {".cht", ".txt"}

\* str.endswith('.cht'), and the pattern '*.cht' of Path.glob
EndsWithCht(f) == Len(f) >= 1 /\ f[Len(f)] = ".cht"

\* os.path.splitext(f)[0] and Path(f).stem, for a name that has a stem
SplitExtBase(f) ==
    IF Len(f) >= 2 /\ f[Len(f)] \in Extensions THEN SubSeq(f, 1, Len(f) - 1) ELSE f

(***************************************************************************)
(* add_cheats_field.py.  A catalog entry is a Python dict: a sequence of   *)
(* <<key, value>> pairs with distinct keys, in insertion order.            *)
(***************************************************************************)
HasKey(d, key) == \E k \in 1..Len(d) : d[k][1] = key

KeyIndex(d, key) == CHOOSE k \in 1..Len(d) : d[k][1] = key

\* d.get(key, default)
DictGet(d, key, default) == IF HasKey(d, key) THEN d[KeyIndex(d, key)][2] ELSE default

\* d[key] = value: an existing key keeps its position, a new key goes last.
DictSet(d, key, value) ==
    IF HasKey(d, key) THEN [d EXCEPT ![KeyIndex(d, key)] = <<key, value>>]
    ELSE Append(d, <<key, value>>)

\* lines 24-26: the stems of the files that match *.cht
ChtStems(dir) == {SplitExtBase(f) : f \in {g \in dir : EndsWithCht(g)}}

\* lines 39-44
CheatsValue(game, cht_files) ==
    LET game_name == DictGet(game, "name", <<>>)
    IN  IF game_name \in cht_files THEN <<"/cheats/">> \o game_name \o <<".cht">>
        ELSE <<>>

\* lines 47-51: the loop over the keys of game, from position k on
RECURSIVE CopyKeys(_, _, _, _)
CopyKeys(game, k, new_game, cheats_value) ==
    IF k > Len(game) THEN new_game
    ELSE LET key == game[k][1]
             withCheats == IF key = "description"
                           THEN DictSet(new_game, "cheats", cheats_value)
                           ELSE new_game
         IN  CopyKeys(game, k + 1, DictSet(withCheats, key, game[k][2]), cheats_value)

\* lines 36-57: one iteration of the loop over games
NewGame(game, cht_files) ==
    LET cheats_value == CheatsValue(game, cht_files)
        new_game == CopyKeys(game, 1, <<>>, cheats_value)
    IN  IF ~HasKey(new_game, "cheats") THEN DictSet(new_game, "cheats", cheats_value)
        ELSE new_game

(***************************************************************************)
(* Specification SpecAnnotate: add_cheats_field run once and again on the  *)
(* catalog it wrote, with the cheat directory unchanged.                   *)
(***************************************************************************)
MaxGames == 2
MaxRuns == 2

GameNames == {<<"A">>, <<"a">>}
EntryKeys == {"name", "cheats", "description", "id"}
KeyOrders == {o \in SeqsUpTo(EntryKeys, Cardinality(EntryKeys)) : Injective(o)}
CheatsDirPool == {<<"A", ".cht">>, <<"A", ".txt">>}

\* The values a field may hold in the catalog that is read.
FieldValues(key) ==
    CASE key = "name" -> GameNames
      [] key = "cheats" -> {<<>>} \cup {<<"/cheats/">> \o n \o <<".cht">> : n \in GameNames}
      [] key = "description" -> {<<"d">>}
      [] OTHER -> {<<"7">>}

Entries ==
    UNION {{[k \in 1..Len(o) |-> <<o[k], v[o[k]]>>] :
               v \in {w \in [EntryKeys -> UNION {FieldValues(key) : key \in EntryKeys}] :
                         \A key \in EntryKeys : w[key] \in FieldValues(key)}} :
           o \in KeyOrders}

IdleAnnot == a_catalog = <<>> /\ a_files = {} /\ a_runs = 0 /\ a_first = <<>>

InitAnnot ==
    /\ a_catalog \in SeqsUpTo(Entries, MaxGames)
    /\ a_files \in SUBSET CheatsDirPool
    /\ a_runs = 0
    /\ a_first = <<>>

\* add_cheats_field(games_json_path, cheats_dir): reads the catalog, rebuilds
\* every entry, writes the catalog back.
AddCheatsField ==
    /\ a_runs < MaxRuns
    /\ LET cht_files == ChtStems(a_files)
           new_games == [k \in 1..Len(a_catalog) |-> NewGame(a_catalog[k], cht_files)]
       IN  /\ a_catalog' = new_games
           /\ a_first' = IF a_runs = 0 THEN new_games ELSE a_first
    /\ a_runs' = a_runs + 1
    /\ UNCHANGED a_files
    /\ UNCHANGED others_annot

NextAnnot == AddCheatsField

(***************************************************************************)
(* copy_cheats.py: the alias extraction and build_name_mapping             *)
(***************************************************************************)
\* str.strip() removes white space, U+3000 (the ideographic space) included.
Whitespace == {" ", "U+3000"}

RECURSIVE LStrip(_)
LStrip(s) == IF s # <<>> /\ Head(s) \in Whitespace THEN LStrip(Tail(s)) ELSE s

RECURSIVE RStrip(_)
RStrip(s) ==
    IF s # <<>> /\ s[Len(s)] \in Whitespace THEN RStrip(SubSeq(s, 1, Len(s) - 1)) ELSE s

Strip(s) == RStrip(LStrip(s))

\* str.split(sep) and re.split('[...]', s): the parts between the separators
RECURSIVE SplitOn(_, _)
SplitOn(s, seps) ==
    IF \E j \in 1..Len(s) : s[j] \in seps
    THEN LET j == CHOOSE k \in 1..Len(s) :
                      s[k] \in seps /\ \A m \in 1..(k - 1) : s[m] \notin seps
         IN  <<SubSeq(s, 1, j - 1)>> \o SplitOn(SubSeq(s, j + 1, Len(s)), seps)
    ELSE <<s>>

RECURSIVE StripAll(_)
StripAll(parts) ==
    IF parts = <<>> THEN <<>> ELSE <<Strip(Head(parts))>> \o StripAll(Tail(parts))

\* A cell of the spreadsheet is a string or NaN (an empty cell): pd.isna.
NaN == [isna |-> TRUE, text |-> <<>>]
Str(s) == [isna |-> FALSE, text |-> s]

\* n and not n.startswith('[')
IsPrimaryName(n) == n # <<>> /\ Head(n) # "["

\* lines 29-37; U+FF1B is the full-width semicolon, which does not split here
extract_english_names(name_en) ==
    IF name_en.isna \/ name_en.text = <<>> THEN <<>>
    ELSE SelectSeq(StripAll(SplitOn(name_en.text, {";"})), IsPrimaryName)

\* lines 40-49
extract_chinese_names(name_cn) ==
    IF name_cn.isna \/ name_cn.text = <<>> THEN <<>>
    ELSE SelectSeq(StripAll(SplitOn(name_cn.text, {"U+FF1B", ";"})), IsPrimaryName)

\* A dict from names to lists of names: a function on its keys.
EmptyMapping == [key \in {} |-> <<>>]

\* if key not in mapping: mapping[key] = []; mapping[key].extend(names)
Extend(mapping, key, names) ==
    IF key \in DOMAIN mapping THEN [mapping EXCEPT ![key] = @ \o names]
    ELSE [k \in DOMAIN mapping \cup {key} |-> IF k = key THEN names ELSE mapping[k]]

\* The same with the list replaced instead of extended.
Replace(mapping, key, names) ==
    [k \in DOMAIN mapping \cup {key} |-> IF k = key THEN names ELSE mapping[k]]

\* A slip in lines 67-72: a later row replaces the list of a normalized key.
RECURSIVE ReplaceNormalized(_, _, _)
ReplaceNormalized(mapping, chinese_names, english_names) ==
    IF chinese_names = <<>> THEN mapping
    ELSE LET normalized == normalize_name(Head(chinese_names))
         IN  ReplaceNormalized(
                 IF normalized # <<>> THEN Replace(mapping, normalized, english_names)
                 ELSE mapping,
                 Tail(chinese_names), english_names)

\* lines 67-72
RECURSIVE RegisterNormalized(_, _, _)
RegisterNormalized(mapping, chinese_names, english_names) ==
    IF chinese_names = <<>> THEN mapping
    ELSE LET normalized == normalize_name(Head(chinese_names))
         IN  RegisterNormalized(
                 IF normalized # <<>> THEN Extend(mapping, normalized, english_names)
                 ELSE mapping,
                 Tail(chinese_names), english_names)

\* lines 75-79
RECURSIVE RegisterRaw(_, _, _)
RegisterRaw(mapping, chinese_names, english_names) ==
    IF chinese_names = <<>> THEN mapping
    ELSE RegisterRaw(
             IF Head(chinese_names) # <<>>
             THEN Extend(mapping, Head(chinese_names), english_names)
             ELSE mapping,
             Tail(chinese_names), english_names)

\* lines 60-79: one iteration of the loop over the rows
AddRow(mapping, row) ==
    LET chinese_names == extract_chinese_names(row.name_cn)
        english_names == extract_english_names(row.name_en)
    IN  IF english_names = <<>> THEN mapping
        ELSE RegisterRaw(RegisterNormalized(mapping, chinese_names, english_names),
                         chinese_names, english_names)

\* lines 52-81
RECURSIVE build_name_mapping_from(_, _)
build_name_mapping_from(mapping, rows) ==
    IF rows = <<>> THEN mapping
    ELSE build_name_mapping_from(AddRow(mapping, Head(rows)), Tail(rows))

build_name_mapping(rows) == build_name_mapping_from(EmptyMapping, rows)

\* copy_cheats, lines 154-164: the exact name first, then its normalized key
LookupNames(name_mapping, game_name) ==
    IF game_name \in DOMAIN name_mapping THEN name_mapping[game_name]
    ELSE LET normalized == normalize_name(game_name)
         IN  IF normalized \in DOMAIN name_mapping THEN name_mapping[normalized]
             ELSE <<>>

(***************************************************************************)
(* Specification SpecIndex: the index built row by row, then looked up.    *)
(***************************************************************************)
MaxRows == 2

\* U+8D85 is a CJK character.
RowPool == {
    [name_cn |-> Str(<<"A", "b", ";", "[", "x", "]">>), name_en |-> Str(<<"E", "1", ";", "[", "y", "]">>)],
    [name_cn |-> Str(<<"a", "b", "U+FF1B", " ", "U+8D85">>), name_en |-> Str(<<"E", "2", ";", " ", "E", "3">>)],
    [name_cn |-> Str(<<"A", "B">>), name_en |-> NaN],
    [name_cn |-> NaN, name_en |-> Str(<<"E", "4">>)],
    [name_cn |-> Str(<<"A", "b">>), name_en |-> Str(<<"E", "5">>)],
    [name_cn |-> Str(<<"a", "-", "b">>), name_en |-> Str(<<"E", "6">>)] }

IndexGamePool == {<<"A", "b">>, <<"a", "b">>, <<"a", "-", "b">>, <<"A", "B">>, <<"U+8D85">>}

IdleIndex ==
    /\ i_rows = <<>> /\ i_done = 0 /\ i_mapping = EmptyMapping /\ i_pc = "idle"
    /\ i_game = <<>> /\ i_english = <<>>

InitIndex ==
    /\ i_rows \in SeqsUpTo(RowPool, MaxRows)
    /\ i_done = 0
    /\ i_mapping = EmptyMapping
    /\ i_pc = "build"
    /\ i_game = <<>>
    /\ i_english = <<>>

\* One iteration of the loop of build_name_mapping.
IndexRow ==
    /\ i_pc = "build"
    /\ i_done < Len(i_rows)
    /\ i_mapping' = AddRow(i_mapping, i_rows[i_done + 1])
    /\ i_done' = i_done + 1
    /\ UNCHANGED <<i_rows, i_pc, i_game, i_english>>
    /\ UNCHANGED others_index

\* return mapping
IndexReturn ==
    /\ i_pc = "build"
    /\ i_done = Len(i_rows)
    /\ i_pc' = "built"
    /\ UNCHANGED <<i_rows, i_done, i_mapping, i_game, i_english>>
    /\ UNCHANGED others_index

\* The lookup of one catalog entry.
IndexLookup ==
    /\ i_pc = "built"
    /\ \E game_name \in IndexGamePool :
          /\ i_game' = game_name
          /\ i_english' = LookupNames(i_mapping, game_name)
    /\ i_pc' = "looked"
    /\ UNCHANGED <<i_rows, i_done, i_mapping>>
    /\ UNCHANGED others_index

NextIndex == IndexRow \/ IndexReturn \/ IndexLookup

(***************************************************************************)
(* copy_cheats.py: find_cheat_file                                         *)
(***************************************************************************)
\* None, and every other value that `if cheat_file:` takes for false
NoFile == <<>>

\* str.startswith
StartsWith(s, prefix) == Len(prefix) <= Len(s) /\ SubSeq(s, 1, Len(prefix)) = prefix

\* lines 94-99: the dict from normalized stem to file, in insertion order; a
\* later file with the same key takes the value, the key keeps its place.
RECURSIVE CheatMappingFrom(_, _)
CheatMappingFrom(cheat_mapping, cheat_files) ==
    IF cheat_files = <<>> THEN cheat_mapping
    ELSE LET cheat_file == Head(cheat_files)
             normalized_cheat == normalize_name(SplitExtBase(cheat_file))
         IN  CheatMappingFrom(
                 IF normalized_cheat # <<>>
                 THEN DictSet(cheat_mapping, normalized_cheat, cheat_file)
                 ELSE cheat_mapping,
                 Tail(cheat_files))

CheatMapping(cheat_files) == CheatMappingFrom(<<>>, cheat_files)

\* lines 102-105: the first name whose key is a key of cheat_mapping
RECURSIVE ExactPass(_, _)
ExactPass(english_names, cheat_mapping) ==
    IF english_names = <<>> THEN NoFile
    ELSE LET normalized_en == normalize_name(Head(english_names))
         IN  IF normalized_en # <<>> /\ HasKey(cheat_mapping, normalized_en)
             THEN DictGet(cheat_mapping, normalized_en, NoFile)
             ELSE ExactPass(Tail(english_names), cheat_mapping)

MinPrefixLen == 5

\* lines 113-116: the first item of cheat_mapping whose key starts with the name
FirstStartingWith(cheat_mapping, normalized_en) ==
    LET hits == {k \in 1..Len(cheat_mapping) : StartsWith(cheat_mapping[k][1], normalized_en)}
    IN  IF hits = {} THEN NoFile
        ELSE cheat_mapping[CHOOSE k \in hits : \A m \in hits : k <= m][2]

\* A slip in line 110: the length test left out.
RECURSIVE PrefixPassAnyLength(_, _)
PrefixPassAnyLength(english_names, cheat_mapping) ==
    IF english_names = <<>> THEN NoFile
    ELSE LET normalized_en == normalize_name(Head(english_names))
             hit == FirstStartingWith(cheat_mapping, normalized_en)
         IN  IF normalized_en = <<>> \/ hit = NoFile
             THEN PrefixPassAnyLength(Tail(english_names), cheat_mapping)
             ELSE hit

\* lines 108-116
RECURSIVE PrefixPass(_, _)
PrefixPass(english_names, cheat_mapping) ==
    IF english_names = <<>> THEN NoFile
    ELSE LET normalized_en == normalize_name(Head(english_names))
             hit == FirstStartingWith(cheat_mapping, normalized_en)
         IN  IF normalized_en = <<>> \/ Len(normalized_en) < MinPrefixLen \/ hit = NoFile
             THEN PrefixPass(Tail(english_names), cheat_mapping)
             ELSE hit

\* A slip in lines 101-116: one pass that takes, name by name, an exact or a
\* prefix match, whichever the name has.
RECURSIVE find_cheat_file_one_pass(_, _)
find_cheat_file_one_pass(english_names, cheat_files) ==
    IF english_names = <<>> THEN NoFile
    ELSE LET cheat_mapping == CheatMapping(cheat_files)
             exact == ExactPass(<<Head(english_names)>>, cheat_mapping)
             prefix == PrefixPass(<<Head(english_names)>>, cheat_mapping)
         IN  IF exact # NoFile THEN exact
             ELSE IF prefix # NoFile THEN prefix
             ELSE find_cheat_file_one_pass(Tail(english_names), cheat_files)

\* lines 84-118
find_cheat_file(english_names, cheat_files) ==
    LET cheat_mapping == CheatMapping(cheat_files)
        exact == ExactPass(english_names, cheat_mapping)
    IN  IF exact # NoFile THEN exact ELSE PrefixPass(english_names, cheat_mapping)

(***************************************************************************)
(* Specification SpecFind: find_cheat_file on short candidate lists and    *)
(* every listing order of the cheat directory.                             *)
(***************************************************************************)
MaxCands == 2

Mario == <<"M", "a", "r", "i", "o">>
Mega == <<"M", "e", "g", "a">>
MegaMan == <<"M", "e", "g", "a", " ", "M", "a", "n">>
MarioBrosU == <<"M", "a", "r", "i", "o", " ", "B", "r", "o", "s", " ", "(", "U", ")">>

CandPool == {Mario, Mega, MegaMan, <<"(", "J", ")">>}

ChtPool == {MarioBrosU \o <<".cht">>, MegaMan \o <<".cht">>,
            <<"m", "a", "r", "i", "o", ".cht">>, <<"M", "A", "R", "I", "O", "!", ".cht">>}

\* os.listdir returns the names of a directory in arbitrary order.
Listings(pool) == {s \in SeqsUpTo(pool, Cardinality(pool)) : Injective(s)}

IdleFind == f_pc = "idle" /\ f_names = <<>> /\ f_files = <<>> /\ f_ret = NoFile

InitFind ==
    /\ f_pc = "call"
    /\ f_names \in SeqsUpTo(CandPool, MaxCands)
    /\ f_files \in Listings(ChtPool)
    /\ f_ret = NoFile

FindCheatFile ==
    /\ f_pc = "call"
    /\ f_ret' = find_cheat_file(f_names, f_files)
    /\ f_pc' = "returned"
    /\ UNCHANGED <<f_names, f_files>>
    /\ UNCHANGED others_find

NextFind == FindCheatFile

(***************************************************************************)
(* copy_cheats.py: copy_cheats.  The output directory is a dict from the   *)
(* name of a copy to the file it was copied from; the report is absent or  *)
(* holds a list of names.                                                  *)
(***************************************************************************)
MaxCopyRows == 2
MaxCopyGames == 2

Chao == <<"U+8D85">>

CopyRowPool == {
    [name_cn |-> Str(Chao),
     name_en |-> Str(Mega \o <<";">> \o Mario \o <<";", " ">> \o MegaMan)],
    [name_cn |-> Str(<<"Z">>), name_en |-> Str(Mega)] }

\* An entry without a name is the empty name: game.get('name', '').
CopyGamePool == {Chao, <<"Z", "!">>, <<>>}

ListingPool == {MarioBrosU \o <<".cht">>, MegaMan \o <<".cht">>, Mario \o <<".txt">>}

NoReport == [exists |-> FALSE, lines |-> <<>>]

IdleCopy ==
    /\ c_pc = "idle" /\ c_dry = TRUE /\ c_rows = <<>> /\ c_games = <<>>
    /\ c_listing = <<>> /\ c_mapping = EmptyMapping /\ c_cheat_files = <<>>
    /\ c_i = 0 /\ c_found_count = 0 /\ c_not_found = <<>> /\ c_copied = <<>>
    /\ c_last = [game_name |-> <<>>, english_names |-> <<>>, cheat_file |-> NoFile]
    /\ fs_outdir = FALSE /\ fs_out = <<>> /\ fs_unknown = NoReport

\* dry_run = not args.execute (line 225)
InitCopy ==
    /\ c_pc = "start"
    /\ c_dry \in BOOLEAN
    /\ c_rows \in SeqsUpTo(CopyRowPool, MaxCopyRows)
    /\ c_games \in SeqsUpTo(CopyGamePool, MaxCopyGames)
    /\ c_listing \in Listings(ListingPool)
    /\ c_mapping = EmptyMapping
    /\ c_cheat_files = <<>>
    /\ c_i = 0
    /\ c_found_count = 0
    /\ c_not_found = <<>>
    /\ c_copied = <<>>
    /\ c_last = [game_name |-> <<>>, english_names |-> <<>>, cheat_file |-> NoFile]
    /\ fs_outdir = FALSE
    /\ fs_out = <<>>
    /\ fs_unknown = NoReport

\* lines 126-142: the inputs are read and, unless dry_run, the output
\* directory is made.
CopyStart ==
    /\ c_pc = "start"
    /\ c_mapping' = build_name_mapping(c_rows)
    /\ c_cheat_files' = SelectSeq(c_listing, EndsWithCht)
    /\ fs_outdir' = IF ~c_dry THEN TRUE ELSE fs_outdir
    /\ c_pc' = "loop"
    /\ UNCHANGED <<c_dry, c_rows, c_games, c_listing, c_i, c_found_count,
                   c_not_found, c_copied, c_last, fs_out, fs_unknown>>
    /\ UNCHANGED others_copy

\* lines 150-152: an entry with no name is skipped.
CopySkipGame ==
    /\ c_pc = "loop"
    /\ c_i < Len(c_games)
    /\ c_games[c_i + 1] = <<>>
    /\ c_i' = c_i + 1
    /\ UNCHANGED <<c_pc, c_dry, c_rows, c_games, c_listing, c_mapping, c_cheat_files,
                   c_found_count, c_not_found, c_copied, c_last, fs_outdir, fs_out,
                   fs_unknown>>
    /\ UNCHANGED others_copy

\* lines 154-188: one entry is looked up, matched and copied or noted.
CopyGame ==
    /\ c_pc = "loop"
    /\ c_i < Len(c_games)
    /\ c_games[c_i + 1] # <<>>
    /\ LET game_name == c_games[c_i + 1]
           english_names == LookupNames(c_mapping, game_name)
           cheat_file == IF english_names # <<>>
                         THEN find_cheat_file(english_names, c_cheat_files)
                         ELSE NoFile
       IN  /\ c_last' = [game_name |-> game_name, english_names |-> english_names,
                         cheat_file |-> cheat_file]
           /\ IF cheat_file # NoFile
              THEN /\ c_found_count' = c_found_count + 1
                   /\ fs_out' = IF c_dry THEN fs_out
                                ELSE DictSet(fs_out, game_name \o <<".cht">>, cheat_file)
                   /\ c_copied' = Append(c_copied,
                                    [game_name |-> game_name, source |-> cheat_file,
                                     english_names |-> SubSeq(english_names, 1,
                                         IF Len(english_names) < 3
                                         THEN Len(english_names) ELSE 3)])
                   /\ UNCHANGED c_not_found
              ELSE /\ c_not_found' = Append(c_not_found, game_name)
                   /\ UNCHANGED <<c_found_count, fs_out, c_copied>>
    /\ c_i' = c_i + 1
    /\ UNCHANGED <<c_pc, c_dry, c_rows, c_games, c_listing, c_mapping, c_cheat_files,
                   fs_outdir, fs_unknown>>
    /\ UNCHANGED others_copy

\* lines 190-205: the report of the unmatched names is written.
CopyReport ==
    /\ c_pc = "loop"
    /\ c_i = Len(c_games)
    /\ fs_unknown' = [exists |-> TRUE, lines |-> c_not_found]
    /\ c_pc' = "done"
    /\ UNCHANGED <<c_dry, c_rows, c_games, c_listing, c_mapping, c_cheat_files, c_i,
                   c_found_count, c_not_found, c_copied, c_last, fs_outdir, fs_out>>
    /\ UNCHANGED others_copy

NextCopy == CopyStart \/ CopySkipGame \/ CopyGame \/ CopyReport

(***************************************************************************)
(* translate_cheats.py: translate_text.  One call of the translation       *)
(* service raises, returns nothing (None or the empty string) or returns a *)
(* text.                                                                   *)
(***************************************************************************)
Retries == 3
MaxTexts == 3

EnglishTexts == {<<"Infinite", " ", "lives">>, <<"HP">>, <<"Invincible">>}

\* What the service may answer: translations, or the text as it was sent.
ServiceTexts == {<<"U+65E0", "U+9650", "U+751F", "U+547D">>, <<"HP">>}

\* A slip in line 27: the last failure waits too.
RetryAfterFailureAlways(attempt) == attempt < Retries

\* line 27: a failure before the last attempt waits and tries again
RetryAfterFailure(attempt) == attempt < Retries - 1

IdleText ==
    /\ t_pc = "off" /\ t_text = <<>> /\ t_attempt = 0 /\ t_calls = 0 /\ t_sleeps = 0
    /\ t_last = "none" /\ t_result = <<>> /\ t_ret = <<>> /\ t_n = 0

InitText ==
    /\ t_pc = "idle" /\ t_text = <<>> /\ t_attempt = 0 /\ t_calls = 0 /\ t_sleeps = 0
    /\ t_last = "none" /\ t_result = <<>> /\ t_ret = <<>> /\ t_n = 0

\* translate_text(text) is called (line 60) and enters its loop.
TranslateText ==
    /\ t_pc \in {"idle", "returned"}
    /\ t_n < MaxTexts
    /\ \E text \in EnglishTexts : t_text' = text
    /\ t_pc' = "try"
    /\ t_ret' = <<>>
    /\ t_attempt' = 0 /\ t_calls' = 0 /\ t_sleeps' = 0
    /\ t_last' = "none" /\ t_result' = <<>>
    /\ t_n' = t_n + 1
    /\ UNCHANGED others_text

\* lines 18-22: the service returns a text, which is returned.
ServiceTranslates ==
    /\ t_pc = "try"
    /\ \E result \in ServiceTexts : t_result' = result /\ t_ret' = result
    /\ t_calls' = t_calls + 1
    /\ t_last' = "text"
    /\ t_pc' = "returned"
    /\ UNCHANGED <<t_text, t_attempt, t_sleeps, t_n>>
    /\ UNCHANGED others_text

\* lines 23-25: the service returns nothing; the text is returned as it was.
ServiceReturnsNothing ==
    /\ t_pc = "try"
    /\ t_result' = <<>>
    /\ t_ret' = t_text
    /\ t_calls' = t_calls + 1
    /\ t_last' = "nothing"
    /\ t_pc' = "returned"
    /\ UNCHANGED <<t_text, t_attempt, t_sleeps, t_n>>
    /\ UNCHANGED others_text

\* lines 26-32: the service raises.
ServiceRaises ==
    /\ t_pc = "try"
    /\ t_calls' = t_calls + 1
    /\ t_last' = "raised"
    /\ t_result' = <<>>
    /\ IF RetryAfterFailure(t_attempt)
       THEN t_pc' = "sleep" /\ t_ret' = t_ret
       ELSE t_pc' = "returned" /\ t_ret' = t_text
    /\ UNCHANGED <<t_text, t_attempt, t_sleeps, t_n>>
    /\ UNCHANGED others_text

\* line 29 and the next turn of the loop of line 16; line 33 when it is over
Sleep ==
    /\ t_pc = "sleep"
    /\ t_sleeps' = t_sleeps + 1
    /\ t_attempt' = t_attempt + 1
    /\ IF t_attempt + 1 < Retries
       THEN t_pc' = "try" /\ t_ret' = t_ret
       ELSE t_pc' = "returned" /\ t_ret' = t_text
    /\ UNCHANGED <<t_text, t_calls, t_last, t_result, t_n>>
    /\ UNCHANGED others_text

NextText ==
    TranslateText \/ ServiceTranslates \/ ServiceReturnsNothing \/ ServiceRaises \/ Sleep

(***************************************************************************)
(* translate_cheats.py: translate_all_cheats and --limit.  A file is its   *)
(* place in the order of glob.                                             *)
(***************************************************************************)
MaxFiles == 3
MaxLimit == 2

\* args.limit is None unless --limit is given (line 130).
NoLimit == [given |-> FALSE, n |-> 0]

\* `if limit:` (line 86): None and 0 are false.
Truthy(limit) == limit.given /\ limit.n # 0

\* s[:n]
SlicePrefix(s, n) ==
    IF n >= 0 THEN SubSeq(s, 1, IF n < Len(s) THEN n ELSE Len(s))
    ELSE SubSeq(s, 1, IF Len(s) + n > 0 THEN Len(s) + n ELSE 0)

IdleLimit ==
    /\ l_pc = "idle" /\ l_nfiles = 0 /\ l_limit = NoLimit /\ l_cht_files = <<>>
    /\ l_i = 0 /\ l_handled = <<>> /\ l_processed_files = 0 /\ l_total = 0

InitLimit ==
    /\ l_pc = "start"
    /\ l_nfiles \in 0..MaxFiles
    /\ l_limit \in {NoLimit} \cup {[given |-> TRUE, n |-> k] : k \in (0 - MaxLimit)..MaxLimit}
    /\ l_cht_files = <<>>
    /\ l_i = 0
    /\ l_handled = <<>>
    /\ l_processed_files = 0
    /\ l_total = 0

\* lines 83-91
LimitStart ==
    /\ l_pc = "start"
    /\ LET cht_files == [k \in 1..l_nfiles |-> k]
       IN  l_cht_files' = IF Truthy(l_limit) THEN SlicePrefix(cht_files, l_limit.n)
                          ELSE cht_files
    /\ l_pc' = "loop"
    /\ UNCHANGED <<l_nfiles, l_limit, l_i, l_handled, l_processed_files, l_total>>
    /\ UNCHANGED others_limit

\* lines 93-111: translate_cht_file on the next file; it returns its
\* translations (none, or some) or raises, which is reported and passed over.
LimitFile ==
    /\ l_pc = "loop"
    /\ l_i < Len(l_cht_files)
    /\ l_handled' = Append(l_handled, l_cht_files[l_i + 1])
    /\ l_i' = l_i + 1
    /\ \E outcome \in {"raises", "none", "some"} :
          IF outcome = "some"
          THEN l_total' = l_total + 1 /\ l_processed_files' = l_processed_files + 1
          ELSE UNCHANGED <<l_total, l_processed_files>>
    /\ UNCHANGED <<l_pc, l_nfiles, l_limit, l_cht_files>>
    /\ UNCHANGED others_limit

\* lines 113-121
LimitDone ==
    /\ l_pc = "loop"
    /\ l_i = Len(l_cht_files)
    /\ l_pc' = "done"
    /\ UNCHANGED <<l_nfiles, l_limit, l_cht_files, l_i, l_handled, l_processed_files,
                   l_total>>
    /\ UNCHANGED others_limit

NextLimit == LimitStart \/ LimitFile \/ LimitDone

(***************************************************************************)
(* The specifications: one script runs, the others are not started.        *)
(***************************************************************************)
InitNormalizeOnly ==
    InitNorm /\ IdleAnnot /\ IdleIndex /\ IdleFind /\ IdleCopy /\ IdleText /\ IdleLimit

SpecNormalize == InitNormalizeOnly /\ [][NextNorm]_vars

InitAnnotateOnly ==
    IdleNorm /\ InitAnnot /\ IdleIndex /\ IdleFind /\ IdleCopy /\ IdleText /\ IdleLimit

SpecAnnotate == InitAnnotateOnly /\ [][NextAnnot]_vars

InitIndexOnly ==
    IdleNorm /\ IdleAnnot /\ InitIndex /\ IdleFind /\ IdleCopy /\ IdleText /\ IdleLimit

SpecIndex == InitIndexOnly /\ [][NextIndex]_vars

InitFindOnly ==
    IdleNorm /\ IdleAnnot /\ IdleIndex /\ InitFind /\ IdleCopy /\ IdleText /\ IdleLimit

SpecFind == InitFindOnly /\ [][NextFind]_vars

InitCopyOnly ==
    IdleNorm /\ IdleAnnot /\ IdleIndex /\ IdleFind /\ InitCopy /\ IdleText /\ IdleLimit

SpecCopy == InitCopyOnly /\ [][NextCopy]_vars

InitTranslateOnly ==
    IdleNorm /\ IdleAnnot /\ IdleIndex /\ IdleFind /\ IdleCopy /\ InitText /\ IdleLimit

SpecTranslate == InitTranslateOnly /\ [][NextText]_vars

InitLimitOnly ==
    IdleNorm /\ IdleAnnot /\ IdleIndex /\ IdleFind /\ IdleCopy /\ IdleText /\ InitLimit

SpecLimit == InitLimitOnly /\ [][NextLimit]_vars

(***************************************************************************)
(* Properties of add_cheats_field (SpecAnnotate).                          *)
(***************************************************************************)
CountKey(d, key) == Cardinality({k \in 1..Len(d) : d[k][1] = key})

\* C1: annotating the catalog again, with the same cheat directory, leaves
\* every entry as the first run wrote it (field order and field values), and
\* no entry has more than one `cheats` field.
C1_AnnotateTwiceIsAnnotateOnce ==
    a_runs >= 2 =>
        /\ a_catalog = a_first
        /\ \A k \in 1..Len(a_catalog) : CountKey(a_catalog[k], "cheats") <= 1

\* C2: after a run every entry's `cheats` is "/cheats/<name>.cht" if a file
\* with exactly the stem <name> is among the *.cht files of the directory,
\* and the empty string otherwise.
C2_CheatsValueIsExactMatch ==
    a_runs >= 1 =>
        \A k \in 1..Len(a_catalog) :
            LET game == a_catalog[k]
                name == DictGet(game, "name", <<>>)
            IN  /\ HasKey(game, "cheats")
                /\ DictGet(game, "cheats", <<>>) =
                       IF \E f \in a_files : f = name \o <<".cht">>
                       THEN <<"/cheats/">> \o name \o <<".cht">>
                       ELSE <<>>

\* C3: in every entry written, `cheats` comes immediately before
\* `description` if the entry has one, and is the last field otherwise.
C3_CheatsPosition ==
    a_runs >= 1 =>
        \A k \in 1..Len(a_catalog) :
            LET game == a_catalog[k]
            IN  /\ HasKey(game, "cheats")
                /\ IF HasKey(game, "description")
                   THEN KeyIndex(game, "cheats") + 1 = KeyIndex(game, "description")
                   ELSE KeyIndex(game, "cheats") = Len(game)

(***************************************************************************)
(* Properties of the alias index (SpecIndex).                              *)
(***************************************************************************)
NamesOf(list) == Range(list)

\* The rows read so far, and their aliases that were registered.
RegisteredAliases ==
    UNION {IF extract_english_names(i_rows[k].name_en) = <<>> THEN {}
           ELSE Range(extract_chinese_names(i_rows[k].name_cn)) : k \in 1..i_done}

\* C4 as stated: for a display name that is a key of the index, and whose
\* normalized key is a key too, the two lists hold the same candidates.
C4_SameMatchSet ==
    i_pc \in {"built", "looked"} =>
        \A game_name \in IndexGamePool :
            (game_name \in DOMAIN i_mapping /\ normalize_name(game_name) \in DOMAIN i_mapping)
            => NamesOf(i_mapping[game_name]) = NamesOf(i_mapping[normalize_name(game_name)])

\* C4 as amended: every candidate found under the exact display name is also
\* found under its normalized key; and the two lists are equal when no other
\* registered alias normalizes to the same key.
C4_ExactWithinNormalized ==
    i_pc \in {"built", "looked"} =>
        \A game_name \in IndexGamePool :
            (game_name \in DOMAIN i_mapping /\ normalize_name(game_name) \in DOMAIN i_mapping)
            => /\ NamesOf(i_mapping[game_name]) \subseteq
                      NamesOf(i_mapping[normalize_name(game_name)])
               /\ (\A alias \in RegisteredAliases :
                       normalize_name(alias) = normalize_name(game_name) => alias = game_name)
                  => i_mapping[game_name] = i_mapping[normalize_name(game_name)]

\* Two aliases of different rows share a normalized key: the key's list is
\* longer than the list of the display name, and a lookup has been made.
C4_Witness ==
    /\ i_pc = "looked"
    /\ i_game \in DOMAIN i_mapping
    /\ normalize_name(i_game) \in DOMAIN i_mapping
    /\ normalize_name(i_game) # i_game
    /\ i_english = i_mapping[i_game]
    /\ NamesOf(i_mapping[i_game]) # NamesOf(i_mapping[normalize_name(i_game)])

(***************************************************************************)
(* Properties of copy_cheats (SpecCopy).                                   *)
(***************************************************************************)
\* C5: a dry run writes nothing: no step of it changes the output directory,
\* the copies in it or the report of the unmatched names.
C5_DryRunWritesNothing ==
    [][c_dry => UNCHANGED <<fs_outdir, fs_out, fs_unknown>>]_vars

NormalizedStem(file) == normalize_name(SplitExtBase(file))

CandidateKeys(english_names) ==
    {normalize_name(english_names[k]) : k \in 1..Len(english_names)}

\* C6: a file found for an entry has a normalized stem that equals a
\* candidate's non-empty key, or starts with a candidate's key of length 5
\* or more; an entry whose candidates all have keys shorter than 5, none of
\* them the stem of a cheat file, is recorded as unmatched.
C6_NoShortPrefixMatch ==
    (c_pc \in {"loop", "done"} /\ c_last.game_name # <<>>) =>
        LET keys == CandidateKeys(c_last.english_names)
            file == c_last.cheat_file
        IN  /\ file # NoFile =>
                   \/ \E key \in keys : key # <<>> /\ key = NormalizedStem(file)
                   \/ \E key \in keys : Len(key) >= 5 /\ StartsWith(NormalizedStem(file), key)
            /\ ( /\ \A key \in keys : Len(key) < 5
                 /\ ~ \E key \in keys, f \in Range(c_cheat_files) :
                         key # <<>> /\ key = NormalizedStem(f) )
               => /\ file = NoFile
                  /\ c_not_found # <<>>
                  /\ c_not_found[Len(c_not_found)] = c_last.game_name

\* An entry whose only candidate is "Mega", with "Mega Man.cht" in the
\* directory, has been passed over and recorded.
C6_Witness ==
    /\ c_pc = "done"
    /\ c_last.english_names = <<Mega>>
    /\ MegaMan \o <<".cht">> \in Range(c_cheat_files)
    /\ c_last.cheat_file = NoFile
    /\ c_last.game_name \in Range(c_not_found)
    /\ fs_unknown.exists /\ c_last.game_name \in Range(fs_unknown.lines)

(***************************************************************************)
(* Properties of find_cheat_file (SpecFind).                               *)
(***************************************************************************)
\* The places in the candidate list of the names with an exact match.
ExactPlaces ==
    {k \in 1..Len(f_names) :
        /\ normalize_name(f_names[k]) # <<>>
        /\ \E f \in Range(f_files) : NormalizedStem(f) = normalize_name(f_names[k])}

FirstPlace(places) == CHOOSE k \in places : \A m \in places : k <= m

\* C10: if a candidate has an exact match, the file returned has the key of
\* the first such candidate as its normalized stem, whatever prefix match an
\* earlier candidate has; a file whose stem only starts with a candidate's
\* key is returned only when no candidate has an exact match.
C10_ExactBeforePrefix ==
    f_pc = "returned" =>
        /\ ExactPlaces # {} =>
               /\ f_ret # NoFile
               /\ NormalizedStem(f_ret) = normalize_name(f_names[FirstPlace(ExactPlaces)])
        /\ (f_ret # NoFile /\ ExactPlaces = {}) =>
               \E k \in 1..Len(f_names) :
                   /\ Len(normalize_name(f_names[k])) >= 5
                   /\ StartsWith(NormalizedStem(f_ret), normalize_name(f_names[k]))
        /\ (f_ret # NoFile /\ NormalizedStem(f_ret) \notin CandidateKeys(f_names)) =>
               ExactPlaces = {}

\* The first candidate has a prefix match only, the second an exact match,
\* and the file of the second is returned.
C10_Witness ==
    /\ f_pc = "returned"
    /\ f_names = <<Mario, MegaMan>>
    /\ MarioBrosU \o <<".cht">> \in Range(f_files)
    /\ \A f \in Range(f_files) : NormalizedStem(f) # normalize_name(Mario)
    /\ f_ret = MegaMan \o <<".cht">>

(***************************************************************************)
(* Properties of normalize_name (SpecNormalize).                           *)
(***************************************************************************)
\* C9: normalize_name(normalize_name(x)) = normalize_name(x).
C9_NormalizeIdempotent == n_pc = "twice" => n_out2 = n_out

\* An input with an unclosed parenthesis, an upper-case letter and a
\* character outside ASCII, whose key is not empty.
C9_Witness ==
    /\ n_pc = "twice"
    /\ n_in = <<"(", "B", "U+00C9", "a">>
    /\ n_out = <<"b", "a">>
    /\ n_out2 = <<"b", "a">>

(***************************************************************************)
(* Properties of translate_text (SpecTranslate).                           *)
(***************************************************************************)
\* C7: at most 3 calls of the service; a wait comes only after a call that
\* raised and before another call; the text returned is the service's, when
\* the last call returned one, and the original text otherwise.
C7_BoundedRetry ==
    /\ t_calls <= 3
    /\ t_pc = "try" =>
           /\ t_calls < 3
           /\ t_sleeps = t_calls
           /\ (t_calls > 0 => t_last = "raised")
    /\ t_pc = "sleep" =>
           /\ t_last = "raised"
           /\ t_calls < 3
           /\ t_sleeps = t_calls - 1
    /\ t_pc = "returned" =>
           /\ t_calls >= 1
           /\ t_sleeps = t_calls - 1
           /\ (t_last = "text" => t_ret = t_result /\ t_result # <<>>)
           /\ (t_last # "text" => t_ret = t_text)

\* Every attempt raised: three calls, two waits, the original text.
C7_Witness ==
    /\ t_pc = "returned"
    /\ t_calls = 3
    /\ t_sleeps = 2
    /\ t_last = "raised"
    /\ t_ret = t_text

(***************************************************************************)
(* Properties of translate_all_cheats (SpecLimit).                         *)
(***************************************************************************)
\* C8: with --limit N at most N files are processed in the run; for N = 0
\* and for a negative N that is no file at all.
C8_AtMostLimitFiles ==
    (l_pc = "done" /\ l_limit.given) =>
        Len(l_handled) <= (IF l_limit.n > 0 THEN l_limit.n ELSE 0)

====
